---- MODULE Spec2Model ----
(***************************************************************************)
(* Model of uploadfinder.py: the probe (check_url), the scan coordinator   *)
(* (find_upload_paths) running the probes on a ThreadPoolExecutor, and the *)
(* command line wrapper (main).                                            *)
(*                                                                         *)
(* Strings are sequences of tokens: a URL is <<scheme, netloc, path...>>,  *)
(* a response body is a sequence of one-character strings.                 *)
(***************************************************************************)
EXTENDS Integers, Sequences, FiniteSets, TLC

VARIABLES
    mpc,          \* position of the main thread
    args_url,     \* args.url as given on the command line
    target_url,   \* main's target_url (args.url, then normalised)
    args_output,  \* args.output given on the command line
    submitted,    \* number of catalog entries submitted to the executor so far
    nThreads,     \* worker threads the executor has spawned
    task,         \* task[i]: the future / running check_url call of catalog entry i
    results,      \* find_upload_paths' results list
    events,       \* progress lines printed by the coordinator, in order
    exc,          \* exception propagating in the main thread ("none" if none)
    host,         \* host[i]: what the host may answer to the requests for path i
    netFailed,    \* history: probes one of whose requests raised RequestException
    plainOk,      \* history: probes that were answered 200 with a keyword-free body
    summary,      \* main's summary of found paths: <<>> until printed
    summaryShown, \* main printed the list of found paths
    file,         \* lines of the output file
    fileWritten,  \* main opened the output file for writing
    exitCode,     \* <<code>> once the process has exited, <<>> while it runs
    unit          \* a single check_url call on its own (unit level)

\* what main leaves behind
outVars == <<summary, summaryShown, file, fileWritten, exitCode>>

\* history variables
histVars == <<plainOk, netFailed>>

\* the inputs of a run
inVars == <<args_url, args_output, host>>

scanVars == <<mpc, target_url, submitted, nThreads, task, results, events, exc,
              inVars, histVars, outVars>>

vars == <<scanVars, unit>>

(***************************************************************************)
(* Bounds and constants                                                    *)
(***************************************************************************)
\* number of catalog entries of the model (the script's catalog holds 49)
NPaths == 3

\* size of the worker pool of the model (max_workers=10 in the script),
\* kept below NPaths so that submissions queue behind a full pool
MaxWorkers == 2

\* status_code None of a failed request
None == -1

Catalog ==
    <<"/upload/", "/uploads/", "/fileupload/", "/file-upload/",
      "/uploadfiles/", "/upload-file/", "/uploader/", "/file/">>

UPLOAD_PATHS == SubSeq(Catalog, 1, NPaths)

Idx == 1..Len(UPLOAD_PATHS)

(***************************************************************************)
(* Strings                                                                 *)
(***************************************************************************)
UpperCase == <<"A", "B", "C", "D", "E", "F", "G", "H", "I", "J", "K", "L", "M",
               "N", "O", "P", "Q", "R", "S", "T", "U", "V", "W", "X", "Y", "Z">>

LowerCase == <<"a", "b", "c", "d", "e", "f", "g", "h", "i", "j", "k", "l", "m",
               "n", "o", "p", "q", "r", "s", "t", "u", "v", "w", "x", "y", "z">>

LowerOf == [c \in {UpperCase[i] : i \in 1..Len(UpperCase)} |->
                LowerCase[CHOOSE i \in 1..Len(UpperCase) : UpperCase[i] = c]]

\* one character of bytes.lower()
LowerChar(c) == IF c \in DOMAIN LowerOf THEN LowerOf[c] ELSE c

\* response.content.lower()
Lower(s) == [i \in 1..Len(s) |-> LowerChar(s[i])]

\* b'...' in content
Contains(s, sub) ==
    \E i \in 0..(Len(s) - Len(sub)) : SubSeq(s, i + 1, i + Len(sub)) = sub

KwUpload == <<"u", "p", "l", "o", "a", "d">>

KwFile == <<"f", "i", "l", "e">>

\* line 90: b'upload' in response.content.lower() or b'file' in response.content.lower()
HasKeyword(content) ==
    Contains(Lower(content), KwUpload) \/ Contains(Lower(content), KwFile)

\* urljoin(base_url, path) for a path that starts with "/": the scheme and
\* the network location of the base, then the path; the base's own path is dropped
urljoin(base_url, path) == <<base_url[1], base_url[2], path>>

(***************************************************************************)
(* The network: what one request can come back with                        *)
(***************************************************************************)
\* status codes the unit-level probe is tried on
Statuses == {200, 399, 400, 403, 404, 500}

\* status codes the host of a scan answers with
ScanStatuses == {200, 403, 404}

Bodies ==
    { <<>>,
      <<"U", "p", "l", "o", "a", "d">>,
      <<"a", " ", "F", "I", "L", "E">>,
      <<"f", "i", "l">>,
      <<"h", "o", "m", "e">> }

Response(s, b) == [kind |-> "response", status_code |-> s, content |-> b]

\* requests.exceptions.RequestException: timeout, DNS failure, refused connection...
RequestException == [kind |-> "RequestException", status_code |-> None, content |-> <<>>]

\* any other exception raised inside the probe
OtherException == [kind |-> "Exception", status_code |-> None, content |-> <<>>]

\* a HEAD response carries no body
HeadResults(S) == {Response(s, <<>>) : s \in S} \cup {RequestException, OtherException}

\* bodies the host of a scan answers with: one with a keyword, one without
ScanBodies == { <<"U", "p", "l", "o", "a", "d">>, <<"h", "o", "m", "e">> }

GetResults(S, B) ==
    {Response(s, b) : s \in S, b \in B} \cup {RequestException, OtherException}

(***************************************************************************)
(* check_url: the state of one call and its two steps                      *)
(***************************************************************************)
Pending == [pc |-> "pending", found |-> FALSE, status_code |-> None]

Queued == [pc |-> "queued", found |-> FALSE, status_code |-> None]

\* line 81: the HEAD request is out
AtHead == [pc |-> "head", found |-> FALSE, status_code |-> None]

\* line 86: the GET request is out
AtGet == [pc |-> "get", found |-> FALSE, status_code |-> None]

\* return (found, url, status_code)
Return(found, status_code) ==
    [pc |-> "returned", found |-> found, status_code |-> status_code]

\* an exception other than RequestException leaves check_url
Raised == [pc |-> "raised", found |-> FALSE, status_code |-> None]

\* mutant: no except clause around the HEAD request
check_url_head_NoExcept(r) ==
    IF r.kind \in {"Exception", "RequestException"} THEN Raised
    ELSE IF r.status_code < 400 THEN AtGet
    ELSE Return(FALSE, r.status_code)

\* mutant: a HEAD status of 400 still counts as success
check_url_head_Le400(r) ==
    IF r.kind = "Exception" THEN Raised
    ELSE IF r.kind = "RequestException" THEN Return(FALSE, None)
    ELSE IF r.status_code <= 400 THEN AtGet
    ELSE Return(FALSE, r.status_code)

\* lines 81-84, 94, 96-97: the HEAD request came back with r
check_url_head(r) ==
    IF r.kind = "Exception" THEN Raised
    ELSE IF r.kind = "RequestException" THEN Return(FALSE, None)
    ELSE IF r.status_code < 400 THEN AtGet
    ELSE Return(FALSE, r.status_code)

\* mutant: the status of the GET response is not looked at
check_url_get_NoStatus(r) ==
    IF r.kind = "Exception" THEN Raised
    ELSE IF r.kind = "RequestException" THEN Return(FALSE, None)
    ELSE IF HasKeyword(r.content) THEN Return(TRUE, r.status_code)
    ELSE Return(FALSE, r.status_code)

\* lines 86-94, 96-97: the GET request came back with r
check_url_get(r) ==
    IF r.kind = "Exception" THEN Raised
    ELSE IF r.kind = "RequestException" THEN Return(FALSE, None)
    ELSE IF r.status_code < 400 /\ HasKeyword(r.content)
         THEN Return(TRUE, r.status_code)
    ELSE Return(FALSE, r.status_code)

Finished(t) == t.pc \in {"returned", "raised"}

InFlight(t) == t.pc \in {"head", "get"}

(***************************************************************************)
(* The coordinator's policy on one outcome (lines 115-123)                 *)
(***************************************************************************)
\* mutant: 404 itself counts as possible
Appends_Le404(found, status_code) ==
    found \/ (status_code # None /\ status_code <= 404)

\* mutant: only confirmed outcomes are kept
Appends_FoundOnly(found, status_code) == found

\* results.append(url) happens for this outcome
Appends(found, status_code) ==
    found \/ (status_code # None /\ status_code < 404)

\* mutant: the URL is put in front of the list
results_append_Front(res, url) == <<url>> \o res

\* lines 117 and 121: results.append(url)
results_append(res, url) == Append(res, url)

\* the progress line printed for this outcome
Tag(found, status_code) ==
    IF found THEN "FOUND"
    ELSE IF status_code # None /\ status_code < 404 THEN "POSSIBLE"
    ELSE "NOT FOUND"

(***************************************************************************)
(* ThreadPoolExecutor(max_workers=...)                                     *)
(***************************************************************************)
\* mutant: the pool grows with every submission
SpawnThread_Unbounded(n) == n + 1

\* submit() starts one more worker thread while the pool is not full
SpawnThread(n) == IF n < MaxWorkers THEN n + 1 ELSE n

Running == {i \in Idx : InFlight(task[i])}

QueuedTasks == {i \in Idx : task[i].pc = "queued"}

\* the work queue is first in, first out
NextQueued == CHOOSE i \in QueuedTasks : \A j \in QueuedTasks : i <= j

\* mutant: as_completed forgets what it has yielded
Handled_Forgotten == {}

\* line 111: the futures as_completed has yielded so far (each is yielded once)
Handled == {events[k].index : k \in 1..Len(events)}

\* mutant: the loop waits for one completion more than there are futures
Exhausted_OneLate(n) == n > Len(UPLOAD_PATHS)

\* mutant: the loop ends one completion early
Exhausted_OneEarly(n) == n >= Len(UPLOAD_PATHS) - 1

\* line 111: as_completed is exhausted once it has yielded n futures
Exhausted(n) == n = Len(UPLOAD_PATHS)

(***************************************************************************)
(* main: arguments                                                         *)
(***************************************************************************)
\* args.url of the scans: no scheme, and a path that urljoin drops
ArgsUrl == <<"example.com", "/app/">>

\* mutant: the scheme is prepended whatever the target starts with
Normalize_Always(url) == <<"http://">> \o url

\* lines 137-138
Normalize(url) ==
    IF url[1] \in {"http://", "https://"} THEN url ELSE <<"http://">> \o url

\* what the output file holds before the run: a line of an earlier run
OldFile == << <<"http://", "old.example", "/upload/">> >>

\* check_url(target_url, UPLOAD_PATHS[i])[1]
Url(i) == urljoin(target_url, UPLOAD_PATHS[i])

(***************************************************************************)
(* Hosts                                                                   *)
(***************************************************************************)
\* a host that may answer anything to any request
AnyHost ==
    [i \in Idx |-> [head |-> HeadResults(ScanStatuses),
                    get |-> GetResults(ScanStatuses, ScanBodies)]]

Fixed(h, g) == [head |-> {h}, get |-> {g}]

\* canned answers of a host whose answer to each URL is fixed
Canned ==
    << Fixed(Response(200, <<>>), Response(200, <<"U", "p", "l", "o", "a", "d">>)),
       Fixed(Response(403, <<>>), RequestException),
       Fixed(Response(404, <<>>), RequestException),
       Fixed(Response(200, <<>>), Response(200, <<"h", "o", "m", "e">>)),
       Fixed(RequestException, RequestException),
       Fixed(Response(200, <<>>), Response(404, <<"a", " ", "F", "I", "L", "E">>)),
       Fixed(Response(200, <<>>), RequestException),
       Fixed(OtherException, RequestException) >>

\* the canned answers dealt to the catalog, starting at each of them in turn
FixedHosts ==
    { [i \in Idx |-> Canned[((i + k) % Len(Canned)) + 1]] : k \in 0..(Len(Canned) - 1) }

UnitIdle == [probe |-> Pending, head |-> RequestException, get |-> RequestException,
             requests |-> <<>>]

ScanStart ==
    /\ mpc = "main"
    /\ target_url = args_url
    /\ args_output \in BOOLEAN
    /\ submitted = 0
    /\ nThreads = 0
    /\ task = [i \in Idx |-> Pending]
    /\ results = <<>>
    /\ events = <<>>
    /\ exc = "none"
    /\ plainOk = {}
    /\ netFailed = {}
    /\ summary = <<>>
    /\ summaryShown = FALSE
    /\ file = OldFile
    /\ fileWritten = FALSE
    /\ exitCode = <<>>

Init == args_url = ArgsUrl /\ ScanStart /\ host = AnyHost /\ unit = UnitIdle

(***************************************************************************)
(* Actions of a scan                                                       *)
(***************************************************************************)
\* main, lines 134-145: normalise the target and enter find_upload_paths
Begin ==
    /\ mpc = "main"
    /\ target_url' = Normalize(target_url)
    /\ mpc' = "submit"
    /\ UNCHANGED <<submitted, nThreads, task, results, events, exc,
                   inVars, histVars, outVars, unit>>

\* line 109: executor.submit(check_url, target_url, path) for the next path
Submit ==
    /\ mpc = "submit"
    /\ submitted < Len(UPLOAD_PATHS)
    /\ submitted' = submitted + 1
    /\ task' = [task EXCEPT ![submitted + 1] = Queued]
    /\ nThreads' = SpawnThread(nThreads)
    /\ mpc' = IF submitted + 1 = Len(UPLOAD_PATHS) THEN "drain" ELSE "submit"
    /\ UNCHANGED <<target_url, results, events, exc, inVars, histVars, outVars, unit>>

\* an idle worker thread takes the next work item and calls check_url (line 81)
Start ==
    /\ QueuedTasks # {}
    /\ Cardinality(Running) < nThreads
    /\ task' = [task EXCEPT ![NextQueued] = AtHead]
    /\ UNCHANGED <<mpc, target_url, submitted, nThreads, results, events, exc,
                   inVars, histVars, outVars, unit>>

\* the HEAD request of probe i comes back
HeadDone(i) ==
    /\ task[i].pc = "head"
    /\ \E r \in host[i].head :
          /\ task' = [task EXCEPT ![i] = check_url_head(r)]
          /\ netFailed' = IF r.kind = "RequestException"
                          THEN netFailed \cup {i} ELSE netFailed
    /\ UNCHANGED <<mpc, target_url, submitted, nThreads, results, events, exc,
                   inVars, plainOk, outVars, unit>>

\* the GET request of probe i comes back (the HEAD was answered below 400,
\* which among ScanStatuses is 200)
GetDone(i) ==
    /\ task[i].pc = "get"
    /\ \E r \in host[i].get :
          /\ task' = [task EXCEPT ![i] = check_url_get(r)]
          /\ plainOk' = IF r.kind = "response" /\ r.status_code = 200
                           /\ ~HasKeyword(r.content)
                        THEN plainOk \cup {i} ELSE plainOk
          /\ netFailed' = IF r.kind = "RequestException"
                          THEN netFailed \cup {i} ELSE netFailed
    /\ UNCHANGED <<mpc, target_url, submitted, nThreads, results, events, exc,
                   inVars, outVars, unit>>

\* lines 111-123: as_completed yields the finished future of path i and the
\* loop body handles it; future.result() re-raises what the probe raised
Handle(i) ==
    /\ mpc = "drain"
    /\ Finished(task[i])
    /\ i \notin Handled
    /\ IF task[i].pc = "raised"
       THEN /\ exc' = "Exception"
            /\ mpc' = "shutdown"
            /\ UNCHANGED <<results, events>>
       ELSE /\ events' = Append(events,
                            [index |-> i, url |-> Url(i),
                             tag |-> Tag(task[i].found, task[i].status_code)])
            /\ results' = IF Appends(task[i].found, task[i].status_code)
                          THEN results_append(results, Url(i))
                          ELSE results
            /\ mpc' = IF Exhausted(Len(events) + 1) THEN "shutdown" ELSE "drain"
            /\ exc' = exc
    /\ UNCHANGED <<target_url, submitted, nThreads, task, inVars, histVars,
                   outVars, unit>>

\* KeyboardInterrupt is raised in the main thread inside find_upload_paths.
\* In the with block it leaves through the executor's __exit__, which is
\* shutdown(wait=True); raised while that wait is going on, it ends the wait.
Interrupt ==
    /\ mpc \in {"submit", "drain", "shutdown"}
    /\ exc' = "KeyboardInterrupt"
    /\ mpc' = IF mpc = "shutdown" THEN "except" ELSE "shutdown"
    /\ UNCHANGED <<target_url, submitted, nThreads, task, results, events,
                   inVars, histVars, outVars, unit>>

\* mutant: the pending exception is dropped and the partial list returned
PoolExit_ReturnsPartial ==
    /\ mpc = "shutdown"
    /\ \A i \in 1..submitted : Finished(task[i])
    /\ mpc' = "returned"
    /\ UNCHANGED <<target_url, submitted, nThreads, task, results, events, exc,
                   inVars, histVars, outVars, unit>>

\* mutant: the with block is left without waiting for the workers
PoolExit_NoWait ==
    /\ mpc = "shutdown"
    /\ mpc' = IF exc = "none" THEN "returned" ELSE "except"
    /\ UNCHANGED <<target_url, submitted, nThreads, task, results, events, exc,
                   inVars, histVars, outVars, unit>>

\* line 108, leaving the with block: shutdown(wait=True) returns once every
\* submitted work item has run; then line 125 returns or the exception goes on
PoolExit ==
    /\ mpc = "shutdown"
    /\ \A i \in 1..submitted : Finished(task[i])
    /\ mpc' = IF exc = "none" THEN "returned" ELSE "except"
    /\ UNCHANGED <<target_url, submitted, nThreads, task, results, events, exc,
                   inVars, histVars, outVars, unit>>

\* main, lines 145-161: found_paths = results
MainReport ==
    /\ mpc = "returned"
    /\ IF results # <<>>
       THEN /\ summary' = results
            /\ summaryShown' = TRUE
            /\ IF args_output
               THEN file' = results /\ fileWritten' = TRUE
               ELSE UNCHANGED <<file, fileWritten>>
       ELSE UNCHANGED <<summary, summaryShown, file, fileWritten>>
    /\ exitCode' = <<0>>
    /\ mpc' = "exited"
    /\ UNCHANGED <<target_url, submitted, nThreads, task, results, events, exc,
                   inVars, histVars, unit>>

\* line 165: sys.exit(1) of the KeyboardInterrupt handler
ExitInterrupted == 1

\* line 168: sys.exit(1) of the handler of any other exception
ExitError == 1

\* mutant: the handlers print their message and fall through to a normal exit
ExitCodeOf_FallThrough(e) == 0

\* lines 163-168: the exit code of the handler that catches e
ExitCodeOf(e) == IF e = "KeyboardInterrupt" THEN ExitInterrupted ELSE ExitError

\* main, lines 163-168: the handler that matches the exception prints its
\* message and exits
MainExcept ==
    /\ mpc = "except"
    /\ exitCode' = <<ExitCodeOf(exc)>>
    /\ mpc' = "exited"
    /\ UNCHANGED <<target_url, submitted, nThreads, task, results, events, exc,
                   inVars, histVars, summary, summaryShown, file, fileWritten, unit>>

Next ==
    \/ Begin
    \/ Submit
    \/ Start
    \/ \E i \in Idx : HeadDone(i)
    \/ \E i \in Idx : GetDone(i)
    \/ \E i \in Idx : Handle(i)
    \/ Interrupt
    \/ PoolExit
    \/ MainReport
    \/ MainExcept

\* scans of a host that may answer anything
Spec == Init /\ [][Next]_vars

FixedHostInit ==
    args_url = ArgsUrl /\ ScanStart /\ host \in FixedHosts /\ unit = UnitIdle

\* values of args.url: a bare host name, one with a path, and URLs that carry
\* one of the two schemes
Targets ==
    { <<"example.com">>,
      <<"example.com", "/app/">>,
      <<"http://", "example.com">>,
      <<"https://", "example.com", "/app/">> }

TargetInit ==
    args_url \in Targets /\ ScanStart /\ host \in FixedHosts /\ unit = UnitIdle

\* scans of each target
TargetSpec == TargetInit /\ [][Next]_vars

\* scans of a host whose answer to each URL is fixed
FixedHostSpec == FixedHostInit /\ [][Next]_vars

(***************************************************************************)
(* One check_url call on its own                                           *)
(***************************************************************************)
UnitInputs ==
    { [probe |-> Pending, head |-> h, get |-> g, requests |-> <<>>] :
        h \in HeadResults(Statuses), g \in GetResults(Statuses, Bodies) }

ProbeInit ==
    args_url = ArgsUrl /\ ScanStart /\ host = AnyHost /\ unit \in UnitInputs

\* line 81: requests.head is called
UnitCall ==
    /\ unit.probe.pc = "pending"
    /\ unit' = [unit EXCEPT !.probe = AtHead, !.requests = Append(@, "HEAD")]
    /\ UNCHANGED scanVars

\* lines 81-86: the HEAD request comes back; below 400, requests.get is called
UnitHead ==
    /\ unit.probe.pc = "head"
    /\ LET after == check_url_head(unit.head) IN
       unit' = [unit EXCEPT !.probe = after,
                            !.requests = IF after.pc = "get" THEN Append(@, "GET") ELSE @]
    /\ UNCHANGED scanVars

\* lines 86-94: the GET request comes back
UnitGet ==
    /\ unit.probe.pc = "get"
    /\ unit' = [unit EXCEPT !.probe = check_url_get(unit.get)]
    /\ UNCHANGED scanVars

ProbeNext == UnitCall \/ UnitHead \/ UnitGet

\* check_url on every combination of HEAD and GET results
ProbeSpec == ProbeInit /\ [][ProbeNext]_vars

(***************************************************************************)
(* Scans without interrupt, under fair scheduling                          *)
(***************************************************************************)
\* a host every request to which comes back with a response or fails with a
\* RequestException (timeout=5 bounds each request, lines 81 and 86)
ReliableHost ==
    [i \in Idx |->
        [head |-> HeadResults(ScanStatuses) \ {OtherException},
         get |-> GetResults(ScanStatuses, ScanBodies) \ {OtherException}]]

LiveInit ==
    args_url = ArgsUrl /\ ScanStart /\ host = ReliableHost /\ unit = UnitIdle

LiveNext ==
    \/ Begin
    \/ Submit
    \/ Start
    \/ \E i \in Idx : HeadDone(i)
    \/ \E i \in Idx : GetDone(i)
    \/ \E i \in Idx : Handle(i)
    \/ PoolExit
    \/ MainReport

\* the main thread and the worker threads keep running, every request comes
\* back, and as_completed wakes up when a future is finished
Fairness ==
    /\ WF_vars(Begin)
    /\ WF_vars(Submit)
    /\ WF_vars(Start)
    /\ \A i \in Idx : WF_vars(HeadDone(i))
    /\ \A i \in Idx : WF_vars(GetDone(i))
    /\ WF_vars(\E i \in Idx : Handle(i))
    /\ WF_vars(PoolExit)
    /\ WF_vars(MainReport)

LiveSpec == LiveInit /\ [][LiveNext]_vars /\ Fairness

(***************************************************************************)
(* Properties                                                              *)
(***************************************************************************)
\* find_upload_paths has returned its list to main
CompletedNormally == mpc = "returned" \/ (mpc = "exited" /\ exitCode = <<0>>)

InResults(u) == \E k \in 1..Len(results) : results[k] = u

EventsOf(i) == {k \in 1..Len(events) : events[k].index = i}

\* C1: at no time are more probes in flight (started and not yet returned)
\* than the pool has workers
C1_ConcurrencyCap == Cardinality(Running) <= MaxWorkers

\* the pool is full while a submitted probe waits in the queue
C1_Witness == Cardinality(Running) = MaxWorkers /\ QueuedTasks # {}

\* C2: when a scan has completed normally, every catalog path was probed and
\* has exactly one progress event, tagged FOUND, POSSIBLE or NOT FOUND, and
\* there are as many events as catalog entries
C2_OneOutcomePerPath ==
    CompletedNormally =>
        /\ Len(events) = Len(UPLOAD_PATHS)
        /\ \A i \in Idx : task[i].pc = "returned" /\ Cardinality(EventsOf(i)) = 1
        /\ \A k \in 1..Len(events) :
              /\ events[k].tag \in {"FOUND", "POSSIBLE", "NOT FOUND"}
              /\ events[k].url = Url(events[k].index)

\* a completed scan that printed all three kinds of event, not in catalog order
C2_Witness ==
    /\ CompletedNormally
    /\ {events[k].tag : k \in 1..Len(events)} = {"FOUND", "POSSIBLE", "NOT FOUND"}
    /\ events[1].index # 1

\* C3: when a scan returns, the URL of a path is in the result list exactly
\* if the path's outcome is found, or is not found but carries a status code
\* (not None) below 404
C3_Membership ==
    CompletedNormally =>
        \A i \in Idx :
            InResults(Url(i)) <=>
                \/ task[i].found
                \/ (task[i].status_code # None /\ task[i].status_code < 404)

\* the scenario of the spec: (200, upload body), (403), (404)
C3_Witness ==
    /\ CompletedNormally
    /\ task[1] = Return(TRUE, 200)
    /\ task[2] = Return(FALSE, 403)
    /\ task[3] = Return(FALSE, 404)
    /\ {results[k] : k \in 1..Len(results)} = {Url(1), Url(2)}

\* C4 as claimed: a path answered 200 to both requests with a body holding
\* neither keyword has an Absent outcome and its URL is not in the result list
C4_NotAppended ==
    \A i \in plainOk :
        /\ task[i].pc = "returned" /\ ~task[i].found
        /\ i \in Handled => ~InResults(Url(i))

\* C4 as amended: such a path has the Absent outcome carrying 200, and once
\* the coordinator has handled it its URL is in the result list, reported as
\* POSSIBLE
C4_AppendedAsPossible ==
    \A i \in plainOk :
        /\ task[i] = Return(FALSE, 200)
        /\ i \in Handled =>
              /\ InResults(Url(i))
              /\ \A k \in EventsOf(i) : events[k].tag = "POSSIBLE"

\* a keyword-free page answered 200 has been handled by the coordinator
C4_Witness == \E i \in plainOk : i \in Handled

\* C5: a probe one of whose requests failed at network level has returned
\* the outcome (False, None) instead of raising; the scan is only ever aborted
\* by an exception of a probe without such a failure; and a scan that returns
\* has handled every path
C5_FailureAbsorbed ==
    /\ \A i \in netFailed : task[i] = Return(FALSE, None)
    /\ exc = "Exception" => \E i \in Idx \ netFailed : task[i].pc = "raised"
    /\ CompletedNormally => \A i \in Idx : i \in Handled

\* a scan returned a non-empty list although some, not all, probes failed
C5_Witness ==
    /\ CompletedNormally
    /\ netFailed # {}
    /\ netFailed # Idx
    /\ results # <<>>
    /\ \E i \in netFailed : events[1].index = i

\* C6 as claimed: once KeyboardInterrupt has been raised, no queued probe
\* leaves the queue
C6_NoStartAfterInterrupt ==
    [][exc = "KeyboardInterrupt" =>
          \A i \in Idx : task[i].pc = "queued" => task'[i].pc = "queued"]_vars

\* C7: once a scan has been interrupted, find_upload_paths never returns a
\* list, the summary is not printed, the output file is not touched, and the
\* process exits through the handler of KeyboardInterrupt with code 1
C7_NoPartialResult ==
    exc = "KeyboardInterrupt" =>
        /\ mpc # "returned"
        /\ ~summaryShown /\ summary = <<>>
        /\ ~fileWritten /\ file = OldFile
        /\ exitCode \in {<<>>, <<1>>}
        /\ mpc = "exited" => exitCode = <<1>>

\* an interrupted run has exited with URLs already in its list
C7_Witness ==
    /\ exc = "KeyboardInterrupt"
    /\ mpc = "exited"
    /\ Len(results) >= 1
    /\ args_output

\* C8: when find_upload_paths has returned, no catalog path is unprobed, in
\* flight or finished but not handled
C8_ReturnsAfterAll ==
    CompletedNormally =>
        \A i \in Idx : Finished(task[i]) /\ i \in Handled

\* a scan returned whose first handled outcome was already a match
C8_Witness ==
    /\ mpc = "returned"
    /\ events[1].tag = "FOUND"
    /\ Len(events) > 1

\* what check_url returns for path i on a host with fixed answers
FixedOutcome(i) ==
    LET h == CHOOSE r \in host[i].head : TRUE
        g == CHOOSE r \in host[i].get : TRUE
    IN  IF h.kind = "response" /\ h.status_code < 400
        THEN check_url_get(g)
        ELSE check_url_head(h)

\* the result set a host with fixed answers determines
FixedResultSet ==
    {Url(i) : i \in {j \in Idx :
        \/ FixedOutcome(j).found
        \/ (FixedOutcome(j).status_code # None /\ FixedOutcome(j).status_code < 404)}}

\* C9: against a host whose answer to each URL is fixed, every scan that
\* returns, whatever the interleaving, returns the same set of URLs, the one
\* the host's answers determine
C9_SameSet ==
    CompletedNormally => {results[k] : k \in 1..Len(results)} = FixedResultSet

\* a scan of a fixed host returned its URLs out of catalog order
C9_Witness ==
    /\ CompletedNormally
    /\ Len(results) >= 2
    /\ \E i, j \in Idx : i < j /\ results[1] = Url(j) /\ results[2] = Url(i)

\* the bodies of Bodies that hold "upload" or "file" in any case
KeywordBodies ==
    { <<"U", "p", "l", "o", "a", "d">>, <<"a", " ", "F", "I", "L", "E">> }

\* C10: the decision table of check_url for HEAD status h, GET status g and
\* body b: h >= 400 gives (False, h); h < 400, g < 400 and a keyword in b
\* give (True, g); every other case with h < 400 gives (False, g)
C10_DecisionTable ==
    LET h == unit.head
        g == unit.get
    IN  (/\ Finished(unit.probe)
         /\ h.kind = "response"
         /\ (h.status_code < 400 => g.kind = "response"))
        => (unit.probe =
              IF h.status_code >= 400 THEN Return(FALSE, h.status_code)
              ELSE IF g.status_code < 400 /\ g.content \in KeywordBodies
                   THEN Return(TRUE, g.status_code)
              ELSE Return(FALSE, g.status_code))

\* HEAD below 400, GET at 404 with a keyword in the body: Absent carrying 404
C10_Witness ==
    /\ unit.probe = Return(FALSE, 404)
    /\ unit.head.status_code = 200
    /\ unit.get.content \in KeywordBodies

C12_FileHoldsResults ==
    (mpc = "exited" /\ exitCode = <<0>> /\ args_output) =>
        (fileWritten /\ file = results)

\* C13 as claimed: the exit code of an error run differs both from 0 and from
\* the code interrupted runs exit with, which differs from 0
C13_PairwiseDifferent ==
    mpc = "exited" =>
        /\ exc = "none" => exitCode = <<0>>
        /\ exc = "KeyboardInterrupt" =>
              exitCode = <<ExitInterrupted>> /\ ExitInterrupted # 0
        /\ exc = "Exception" => exitCode \notin {<<0>>, <<ExitInterrupted>>}

\* C13 as amended: a run exits 0 exactly if it completed normally; an
\* interrupted run and a run ended by an error both exit 1
C13_ZeroOrOne ==
    mpc = "exited" =>
        /\ exitCode = <<0>> <=> exc = "none"
        /\ exc \in {"KeyboardInterrupt", "Exception"} => exitCode = <<1>>

\* a run ended by an error of a probe has exited with code 1
C13_Witness == mpc = "exited" /\ exc = "Exception" /\ exitCode = <<1>>

\* C14: without interrupt, with every request coming back and the threads
\* scheduled fairly, every scan eventually returns its list, every catalog
\* path having been probed and handled
C14_Terminates ==
    <>(/\ mpc = "returned"
       /\ \A i \in Idx : task[i].pc = "returned" /\ i \in Handled)

\* a scan has returned although requests of it timed out or failed
C14_Witness ==
    /\ mpc = "returned"
    /\ netFailed # {}
    /\ \A i \in Idx : task[i].pc = "returned"

\* what the claim says target_url is for a given args.url
Normalized(url) ==
    IF url[1] = "http://" \/ url[1] = "https://" THEN url ELSE <<"http://">> \o url

\* C15: once main has normalised it, target_url is args.url itself if that
\* starts with http:// or https:// and args.url with http:// prepended
\* otherwise; normalising it again changes nothing; and the URL of every
\* probe is joined from this one base
C15_Normalization ==
    mpc # "main" =>
        /\ target_url = Normalized(args_url)
        /\ target_url[1] \in {"http://", "https://"}
        /\ Normalize(target_url) = target_url
        /\ \A k \in 1..Len(events) :
              events[k].url =
                  <<target_url[1], target_url[2], UPLOAD_PATHS[events[k].index]>>

\* probes of a target given with https:// and a path have been handled
C15_Witness ==
    /\ Len(events) >= 2
    /\ args_url[1] = "https://"
    /\ target_url = args_url

\* the events of the outcomes that were not reported NOT FOUND, in the order
\* the coordinator handled them
KeptEvents == SelectSeq(events, LAMBDA e : e.tag # "NOT FOUND")

\* C16: at every point of a scan the result list is the URLs of the FOUND
\* and POSSIBLE outcomes in the order the coordinator handled them, and each
\* step leaves the list as it is or appends one URL at its end
C16_CompletionOrder ==
    /\ [](results = [k \in 1..Len(KeptEvents) |-> KeptEvents[k].url])
    /\ [][\/ results' = results
          \/ /\ Len(results') = Len(results) + 1
             /\ SubSeq(results', 1, Len(results)) = results]_vars

\* the result list holds two URLs in the reverse of their catalog order
C16_Witness ==
    /\ Len(results) = 2
    /\ results[1] = Url(3)
    /\ results[2] = Url(1)
    /\ events[2].tag = "NOT FOUND"

\* C17: at every point of a scan the result list holds no URL twice, each
\* of its URLs is the URL of a catalog path whose outcome has been handled,
\* and it is no longer than the number of outcomes handled, hence than the
\* catalog; the catalog holds no path twice
C17_NoDuplicates ==
    /\ \A k, l \in 1..Len(results) : results[k] = results[l] => k = l
    /\ \A k \in 1..Len(results) : \E i \in Handled : results[k] = Url(i)
    /\ Len(results) <= Cardinality(Handled)
    /\ Cardinality(Handled) = Len(events)
    /\ Len(events) <= Len(UPLOAD_PATHS)
    /\ \A i, j \in Idx : UPLOAD_PATHS[i] = UPLOAD_PATHS[j] => i = j

\* all outcomes were handled and all but one of the URLs kept
C17_Witness ==
    /\ Len(events) = Len(UPLOAD_PATHS)
    /\ Len(results) = Len(UPLOAD_PATHS) - 1

\* C18: while the exception of a probe is propagating in the main thread, the
\* probe that raised it is not turned into an outcome, find_upload_paths does
\* not return its list, nothing of the summary or the file is produced, main
\* is reached only once every submitted probe has finished, and the process
\* exits with a code other than 0
C18_ErrorAborts ==
    /\ \A i \in Idx : task[i].pc = "raised" => i \notin Handled
    /\ exc = "Exception" =>
          /\ \E i \in Idx : task[i].pc = "raised"
          /\ mpc \in {"shutdown", "except", "exited"}
          /\ ~summaryShown /\ ~fileWritten /\ file = OldFile
          /\ mpc \in {"except", "exited"} =>
                /\ submitted = Len(UPLOAD_PATHS)
                /\ \A i \in Idx : Finished(task[i])
          /\ mpc = "exited" => exitCode # <<>> /\ exitCode # <<0>>

\* a run ended by the exception of a probe, with URLs already in its list
\* and another probe handled before the failing one
C18_Witness ==
    /\ exc = "Exception"
    /\ mpc = "exited"
    /\ Len(results) >= 1
    /\ args_output
    /\ task[1].pc = "raised"

====
